---------------------------- MODULE Spec2Model ----------------------------
(***************************************************************************)
(* VectorDBFAISS: an express server that keeps documents and their         *)
(* embeddings in SQLite (table documents: id AUTOINCREMENT, content        *)
(* UNIQUE, vector BLOB) and an in-memory array FAISS.index used for        *)
(* retrieval.                                                              *)
(*                                                                         *)
(* Two programs of the repository are modelled over the same state:        *)
(*   Spec       src/server.js      (full vectors, /search scans the store) *)
(*   SpecArray  src/serverArray.js (first ALENGTH elements, /search uses   *)
(*                                  FAISS.search, resync counts first)     *)
(* Spec is one run of the process on a database file left by earlier       *)
(* runs; SpecRestart lets the process end and start again; SpecResync      *)
(* lets synchronizeFAISS be called again in a running process; SpecAdd is  *)
(* /add alone on a fresh database file.                                    *)
(* SpecChunk is the chunking variant of /add (src/unnamed/part_001).       *)
(* SpecSearch applies FAISS.search, and SpecContext the context building   *)
(* of /search, call by call to inputs drawn from small sets.               *)
(* SpecScan is /search of src/server.js, which scans the store.            *)
(* SpecCrash is /add with a process that dies between the INSERT and the   *)
(* index add and is started again.                                         *)
(* SpecCount is /count-documents of src/server.js.                         *)
(* SpecRank applies FAISS.search of src/server.js and the ranking of its   *)
(* /search handler to the same query, over an index in sync with the store.*)
(*                                                                         *)
(* Numbers.  A JavaScript number n/Scale is written as the integer n.      *)
(* Float32Array keeps fewer mantissa bits than a double: in this model a   *)
(* float32 has a 2-bit mantissa, so 0..4 are exact and 5 is not.           *)
(* A BLOB is a sequence of bytes; a float32 takes four of them.            *)
(***************************************************************************)
EXTENDS Integers, Sequences, FiniteSets, TLC

VARIABLES
    store,      \* rows of table documents, in rowid order
    index,      \* FAISS.index: sequence of [vector, docId]
    sync,       \* the synchronizeFAISS call of this process: pc is "start"
                \* (its first statement is issued), "counted", "all", "read"
                \* (the rows are read, the callback is due) or "done"
    req         \* the HTTP requests of this process

vars == <<store, index, sync, req>>

(***************************** bounds **************************************)
MaxReq == 2          \* requests one process serves
MaxSync == 2         \* calls of synchronizeFAISS in one process
Scale == 8           \* the integer n stands for the number n/Scale

Requests == 1..MaxReq

\* request bodies: empty, blank, and a text
Contents == {"", " ", "a"}

\* what the Embedding Provider may answer (|component| < 1, as for ada-002)
Embeddings ==
    { <<1, 0, 0, 0, 0, 0, 0, 0>>,
      <<0, 5, 0, 0, 0, 0, 0, 0>> }

\* the files of ./documents, in readdir order
Folder == <<"a", "b">>

(************************* pure functions **********************************)
\* Math.fround on the model's numbers: round to a 2-bit mantissa, ties to even
Fround(x) ==
    IF x < 4 THEN x
    ELSE LET q == x \div 2
         IN  IF x % 2 = 0 THEN x
             ELSE IF q % 2 = 0 THEN 2 * q ELSE 2 * (q + 1)

\* the four little-endian bytes of one float32
F32Bytes(x) == <<Fround(x) % 256, Fround(x) \div 256, 0, 0>>

RECURSIVE Flatten(_)
Flatten(ss) == IF ss = <<>> THEN <<>> ELSE Head(ss) \o Flatten(Tail(ss))

\* Buffer.from(new Float32Array(vector).buffer)
EncodeF32(vector) == Flatten([i \in 1..Len(vector) |-> F32Bytes(vector[i])])

\* Buffer.from(vector): one byte per element, ToUint8 of the number
EncodeBytes(vector) == [i \in 1..Len(vector) |-> (vector[i] \div Scale) % 256]

\* Array.from(new Float32Array(row.vector.buffer))
DecodeF32(blob) ==
    [j \in 1..(Len(blob) \div 4) |->
        blob[4 * (j - 1) + 1] + 256 * blob[4 * (j - 1) + 2]]

\* a field that the request body does not have reads as undefined
Undefined == "<undefined>"

\* JavaScript truthiness of a string or undefined: "" and undefined are falsy
Falsy(content) == content \in {"", Undefined}

(****************************** the store **********************************)
\* id INTEGER PRIMARY KEY AUTOINCREMENT: one more than the largest rowid
\* (rows are never deleted, so that is the number of rows plus one)
\* (mutant) the table without UNIQUE(content) and a plain INSERT
InsertOrIgnore_NoUnique(st, content, blob) ==
    [rows |-> Append(st, [id |-> Len(st) + 1, content |-> content,
                          vector |-> blob]),
     err |-> ""]

\* (mutant) INSERT OR REPLACE: the row that holds the content is deleted and
\* the new row takes the next id
InsertOrIgnore_Replace(st, content, blob) ==
    LET others == SelectSeq(st, LAMBDA row : row.content # content)
    IN  [rows |-> Append(others, [id |-> Len(st) + 1, content |-> content,
                                  vector |-> blob]),
         err |-> ""]

\* INSERT OR IGNORE INTO documents (content, vector) VALUES (?, ?) on the
\* table st: the table after it and the err of the callback ("" is null)
InsertOrIgnore(st, content, blob) ==
    IF \E i \in 1..Len(st) : st[i].content = content
    THEN [rows |-> st, err |-> ""]
    ELSE [rows |-> Append(st, [id |-> Len(st) + 1, content |-> content,
                               vector |-> blob]),
          err |-> ""]

\* db.run(INSERT OR IGNORE ...) by request r: SQLite runs the statement, or
\* fails with a storage error; this.changes and this.lastID are set on success
RunInsert(r, blob) ==
    \/ LET res == InsertOrIgnore(store, req[r].content, blob)
       IN  /\ store' = res.rows
           /\ req' = [req EXCEPT ![r].pc = "callback",
                                 ![r].err = res.err,
                                 ![r].changes = Len(res.rows) - Len(store),
                                 ![r].lastID = IF Len(res.rows) > Len(store)
                                               THEN Len(res.rows) ELSE 0]
    \/ /\ store' = store
       /\ req' = [req EXCEPT ![r].pc = "callback", ![r].err = "SQLITE_IOERR"]

(****************************** the index **********************************)
\* FAISS.add(vector, docId)
FAISS_add(idx, vector, docId) == Append(idx, [vector |-> vector, docId |-> docId])

\* rows.forEach(row => FAISS.add(Array.from(new Float32Array(...)), row.id))
RECURSIVE AddRows(_, _)
AddRows(idx, rows) ==
    IF rows = <<>> THEN idx
    ELSE AddRows(FAISS_add(idx, DecodeF32(Head(rows).vector), Head(rows).id),
                 Tail(rows))

(****************************** requests ***********************************)
NoReq ==
    [op |-> "none", pc |-> "idle", content |-> "", vector |-> <<>>, i |-> 0,
     err |-> "", changes |-> 0, lastID |-> 0, results |-> <<>>,
     query |-> "", k |-> 0, matches |-> <<>>, rows |-> <<>>, context |-> <<>>,
     status |-> 0, message |-> "", details |-> "", docId |-> 0, answer |-> "",
     keys |-> {}, call |-> <<>>,
     scan |-> "", tally |-> "", count |-> 0, sent |-> 0]

\* res.status(s).json({message | error, docId?}): the handler's locals are dead
Respond(r, s, m, d) ==
    [req[r] EXCEPT !.pc = "done", !.vector = <<>>, !.err = "",
                   !.changes = 0, !.lastID = 0,
                   !.k = 0, !.matches = <<>>, !.rows = <<>>, !.context = <<>>,
                   !.status = s, !.message = m, !.docId = d]

\* requests take the slots in the order they arrive
Arrives(r) ==
    /\ req[r].op = "none"
    /\ \A q \in Requests : q < r => req[q].op # "none"

\* the database file as earlier runs of the program left it: new, one
\* document added by POST /add, or the folder loaded by GET /load-documents
InitialStores ==
    { <<>>,
      << [id |-> 1, content |-> "a",
          vector |-> EncodeF32(<<0, 5, 0, 0, 0, 0, 0, 0>>)] >>,
      << [id |-> 1, content |-> "a",
          vector |-> EncodeBytes(<<1, 0, 0, 0, 0, 0, 0, 0>>)],
         [id |-> 2, content |-> "b",
          vector |-> EncodeBytes(<<0, 5, 0, 0, 0, 0, 0, 0>>)] >> }

Init ==
    /\ store \in InitialStores
    /\ index = <<>>
    /\ sync = [pc |-> "start", err |-> FALSE, rows |-> <<>>, count |-> 0, calls |-> 1]
    /\ req = [r \in Requests |-> NoReq]

(************************ synchronizeFAISS (server.js) **********************)
\* SQLite runs SELECT id, vector FROM documents
SyncExec ==
    /\ sync.pc = "start"
    /\ \/ sync' = [sync EXCEPT !.pc = "read", !.rows = store]
       \/ sync' = [sync EXCEPT !.pc = "read", !.err = TRUE]
    /\ UNCHANGED <<store, index, req>>

\* (mutant) the db.all callback returns before rows.forEach
SyncCallback_IndexKept ==
    /\ sync.pc = "read"
    /\ sync' = [sync EXCEPT !.pc = "done", !.rows = <<>>]
    /\ UNCHANGED <<store, index, req>>

\* the db.all callback
SyncCallback ==
    /\ sync.pc = "read"
    /\ index' = IF sync.err THEN index ELSE AddRows(index, sync.rows)
    /\ sync' = [sync EXCEPT !.pc = "done", !.rows = <<>>]
    /\ UNCHANGED <<store, req>>

(**************************** POST /add (server.js) *************************)
AddReceive(r, content) ==
    /\ Arrives(r)
    /\ req' = [req EXCEPT ![r] =
                 IF Falsy(content)
                 THEN [Respond(r, 400, "Content is required", 0)
                          EXCEPT !.op = "add", !.content = content]
                 ELSE [NoReq EXCEPT !.op = "add", !.pc = "embedding",
                                    !.content = content]]
    /\ UNCHANGED <<store, index, sync>>

\* (mutant) the vector is put into the index before the row is written
AddEmbedded_IndexFirst(r, vector) ==
    /\ req[r].op = "add" /\ req[r].pc = "embedding"
    /\ index' = FAISS_add(index, vector, Len(store) + 1)
    /\ req' = [req EXCEPT ![r].vector = vector, ![r].pc = "inserting"]
    /\ UNCHANGED <<store, sync>>

\* getEmbeddings resolves; db.run is issued in the same turn
AddEmbedded(r, vector) ==
    /\ req[r].op = "add" /\ req[r].pc = "embedding"
    /\ req' = [req EXCEPT ![r].vector = vector, ![r].pc = "inserting"]
    /\ UNCHANGED <<store, index, sync>>

\* (mutant) the row is written before the embedding is asked for
AddEmbedFailed_RowWrittenFirst(r) ==
    /\ req[r].op = "add" /\ req[r].pc = "embedding"
    /\ store' = InsertOrIgnore(store, req[r].content, <<>>).rows
    /\ req' = [req EXCEPT ![r] = Respond(r, 500, "Error processing document.", 0)]
    /\ UNCHANGED <<index, sync>>

\* getEmbeddings throws; the catch answers 500
AddEmbedFailed(r) ==
    /\ req[r].op = "add" /\ req[r].pc = "embedding"
    /\ req' = [req EXCEPT ![r] = Respond(r, 500, "Error processing document.", 0)]
    /\ UNCHANGED <<store, index, sync>>

\* SQLite runs the INSERT OR IGNORE (statements run in the order issued, so
\* after the SELECT of synchronizeFAISS), or fails with a storage error
AddInsertExec(r) ==
    /\ req[r].op = "add" /\ req[r].pc = "inserting"
    /\ sync.pc # "start"
    /\ RunInsert(r, EncodeF32(req[r].vector))
    /\ UNCHANGED <<index, sync>>

\* (mutant) if (err) without the return, with the connection's last rowid
AddCallback_ErrFallsThrough(r) ==
    /\ req[r].op = "add" /\ req[r].pc = "callback"
    /\ IF req[r].err # "" \/ req[r].changes > 0
       THEN /\ index' = FAISS_add(index, req[r].vector, Len(store))
            /\ req' = [req EXCEPT ![r] =
                         IF req[r].err # ""
                         THEN Respond(r, 500, "Error adding document.", 0)
                         ELSE Respond(r, 200, "Document added.", req[r].lastID)]
       ELSE /\ index' = index
            /\ req' = [req EXCEPT ![r] =
                         Respond(r, 200, "Document already exists.", 0)]
    /\ UNCHANGED <<store, sync>>

\* (mutant) the callback answers without FAISS.add
AddCallback_NoIndexAdd(r) ==
    /\ req[r].op = "add" /\ req[r].pc = "callback"
    /\ req' = [req EXCEPT ![r] =
                 IF req[r].err # ""
                 THEN Respond(r, 500, "Error adding document.", 0)
                 ELSE IF req[r].changes > 0
                 THEN Respond(r, 200, "Document added.", req[r].lastID)
                 ELSE Respond(r, 200, "Document already exists.", 0)]
    /\ UNCHANGED <<store, index, sync>>

\* (mutant) the callback without the test of this.changes
AddCallback_NoChangesTest(r) ==
    /\ req[r].op = "add" /\ req[r].pc = "callback"
    /\ IF req[r].err # ""
       THEN /\ req' = [req EXCEPT ![r] = Respond(r, 500, "Error adding document.", 0)]
            /\ index' = index
       ELSE /\ index' = FAISS_add(index, req[r].vector, Len(store))
            /\ req' = [req EXCEPT ![r] =
                         Respond(r, 200, "Document added.", Len(store))]
    /\ UNCHANGED <<store, sync>>

\* (mutant) on a content that exists the vector of the call is put into the
\* index again, under the id of the row that holds the content
AddCallback_ExistingRefreshesIndex(r) ==
    /\ req[r].op = "add" /\ req[r].pc = "callback"
    /\ IF req[r].err # ""
       THEN /\ req' = [req EXCEPT ![r] = Respond(r, 500, "Error adding document.", 0)]
            /\ index' = index
       ELSE IF req[r].changes > 0
       THEN /\ index' = FAISS_add(index, req[r].vector, req[r].lastID)
            /\ req' = [req EXCEPT ![r] =
                         Respond(r, 200, "Document added.", req[r].lastID)]
       ELSE /\ index' = FAISS_add(index, req[r].vector,
                                  store[CHOOSE i \in 1..Len(store) :
                                           store[i].content = req[r].content].id)
            /\ req' = [req EXCEPT ![r] =
                         Respond(r, 200, "Document already exists.", 0)]
    /\ UNCHANGED <<store, sync>>

\* function (err) { ... } of db.run
AddCallback(r) ==
    /\ req[r].op = "add" /\ req[r].pc = "callback"
    /\ IF req[r].err # ""
       THEN /\ req' = [req EXCEPT ![r] = Respond(r, 500, "Error adding document.", 0)]
            /\ index' = index
       ELSE IF req[r].changes > 0
       THEN /\ index' = FAISS_add(index, req[r].vector, req[r].lastID)
            /\ req' = [req EXCEPT ![r] =
                         Respond(r, 200, "Document added.", req[r].lastID)]
       ELSE /\ index' = index
            /\ req' = [req EXCEPT ![r] =
                         Respond(r, 200, "Document already exists.", 0)]
    /\ UNCHANGED <<store, sync>>

(*********************** GET /load-documents (server.js) ********************)
\* the next file of the folder is read and handed to getEmbeddings, or the
\* loop ends and the handler answers
LoadNext(rq, i) ==
    IF i <= Len(Folder)
    THEN [rq EXCEPT !.pc = "embedding", !.i = i, !.content = Folder[i],
                    !.vector = <<>>, !.err = "", !.changes = 0, !.lastID = 0]
    ELSE [rq EXCEPT !.pc = "done", !.i = 0, !.content = "", !.vector = <<>>,
                    !.err = "", !.changes = 0, !.lastID = 0,
                    !.status = 200, !.message = "Loaded documents."]

\* the catch of the handler
LoadError(rq) ==
    [rq EXCEPT !.pc = "done", !.i = 0, !.content = "", !.vector = <<>>,
               !.err = "", !.changes = 0, !.lastID = 0, !.results = <<>>,
               !.status = 500, !.message = "Error loading documents."]

LoadReceive(r) ==
    /\ Arrives(r)
    /\ req' = [req EXCEPT ![r] = LoadNext([NoReq EXCEPT !.op = "load"], 1)]
    /\ UNCHANGED <<store, index, sync>>

LoadEmbedded(r, vector) ==
    /\ req[r].op = "load" /\ req[r].pc = "embedding"
    /\ req' = [req EXCEPT ![r].vector = vector, ![r].pc = "inserting"]
    /\ UNCHANGED <<store, index, sync>>

\* fs.readdir, fs.readFile or getEmbeddings throws
LoadFailed(r) ==
    /\ req[r].op = "load" /\ req[r].pc = "embedding"
    /\ req' = [req EXCEPT ![r] = LoadError(req[r])]
    /\ UNCHANGED <<store, index, sync>>

\* SQLite runs the INSERT OR IGNORE with Buffer.from(vector) as the BLOB
LoadInsertExec(r) ==
    /\ req[r].op = "load" /\ req[r].pc = "inserting"
    /\ sync.pc # "start"
    /\ RunInsert(r, EncodeBytes(req[r].vector))
    /\ UNCHANGED <<index, sync>>

\* function (err) { ... } of db.run, then the continuation of the await:
\* reject(err) does not return, but on an error the statement carries no
\* changes, so nothing is added; the rejected promise ends in the catch
LoadCallback(r) ==
    /\ req[r].op = "load" /\ req[r].pc = "callback"
    /\ IF req[r].err # ""
       THEN /\ req' = [req EXCEPT ![r] = LoadError(req[r])]
            /\ index' = index
       ELSE IF req[r].changes > 0
       THEN /\ index' = FAISS_add(index, req[r].vector, req[r].lastID)
            /\ req' = [req EXCEPT ![r] =
                         LoadNext([req[r] EXCEPT !.results =
                                      Append(@, req[r].lastID)], req[r].i + 1)]
       ELSE /\ index' = index
            /\ req' = [req EXCEPT ![r] = LoadNext(req[r], req[r].i + 1)]
    /\ UNCHANGED <<store, sync>>

(***************************** process restart *****************************)
\* the process ends and is started again: the database file stays, the
\* in-memory index and the requests in flight are gone
Restart ==
    /\ index' = <<>>
    /\ sync' = [pc |-> "start", err |-> FALSE, rows |-> <<>>, count |-> 0, calls |-> 1]
    /\ req' = [r \in Requests |-> NoReq]
    /\ UNCHANGED store

Next ==
    \/ SyncExec
    \/ SyncCallback
    \/ \E r \in Requests, content \in Contents : AddReceive(r, content)
    \/ \E r \in Requests, vector \in Embeddings : AddEmbedded(r, vector)
    \/ \E r \in Requests : AddEmbedFailed(r)
    \/ \E r \in Requests : AddInsertExec(r)
    \/ \E r \in Requests : AddCallback(r)
    \/ \E r \in Requests : LoadReceive(r)
    \/ \E r \in Requests, vector \in Embeddings : LoadEmbedded(r, vector)
    \/ \E r \in Requests : LoadFailed(r)
    \/ \E r \in Requests : LoadInsertExec(r)
    \/ \E r \in Requests : LoadCallback(r)

Spec == Init /\ [][Next]_vars

\* the program over several runs on one database file
NextRestart ==
    \/ Next
    \/ Restart

SpecRestart == Init /\ [][NextRestart]_vars

\* POST /add alone, on a database that starts empty
InitEmpty == Init /\ store = <<>>

NextAdd ==
    \/ SyncExec
    \/ SyncCallback
    \/ \E r \in Requests, content \in Contents : AddReceive(r, content)
    \/ \E r \in Requests, vector \in Embeddings : AddEmbedded(r, vector)
    \/ \E r \in Requests : AddEmbedFailed(r)
    \/ \E r \in Requests : AddInsertExec(r)
    \/ \E r \in Requests : AddCallback(r)

SpecAdd == InitEmpty /\ [][NextAdd]_vars

\* the process dies after SQLite has run the INSERT of a /add call and before
\* the callback of db.run adds the vector to the index; it is started again
CrashBeforeIndexAdd ==
    /\ \E r \in Requests :
          /\ req[r].op = "add" /\ req[r].pc = "callback"
          /\ req[r].err = "" /\ req[r].changes > 0
    /\ Restart

NextCrash ==
    \/ NextAdd
    \/ CrashBeforeIndexAdd

SpecCrash == InitEmpty /\ [][NextCrash]_vars

(************************* synchronizeFAISS, called again ******************)
\* synchronizeFAISS() is called once more after an earlier call has finished:
\* its db.all is issued, FAISS.index is left as it is
Resync ==
    /\ sync.pc = "done"
    /\ sync.calls < MaxSync
    /\ sync' = [pc |-> "start", err |-> FALSE, rows |-> <<>>, count |-> 0,
                calls |-> sync.calls + 1]
    /\ UNCHANGED <<store, index, req>>

NextResync == Next \/ Resync

SpecResync == Init /\ [][NextResync]_vars

(***************************************************************************)
(*                           src/serverArray.js                            *)
(***************************************************************************)
ALENGTH == 5
MaxPrompt == 10000
LongLen == 9900      \* characters of the long query "Q"
\* the fixed text of the prompt of getAnswer (embedArray.js), in characters
TemplateLen == 157

Min(a, b) == IF a < b THEN a ELSE b
Max(a, b) == IF a > b THEN a ELSE b

\* s.slice(0, n)
Slice(s, n) ==
    IF n >= 0 THEN SubSeq(s, 1, Min(n, Len(s)))
    ELSE SubSeq(s, 1, Max(Len(s) + n, 0))

\* FAISS.add(vec, docId): only the first ALENGTH elements are kept
FAISS_addArray(idx, vec, docId) ==
    Append(idx, [vector |-> Slice(vec, ALENGTH), docId |-> docId])

RECURSIVE Dot(_, _)
Dot(a, b) == IF a = <<>> THEN 0 ELSE Head(a) * Head(b) + Dot(Tail(a), Tail(b))

\* dot / (|a| * |b|), kept exact as num / sqrt(den); it is NaN when den = 0
CosineSimilarity(a, b) == [num |-> Dot(a, b), den |-> Dot(a, a) * Dot(b, b)]

IsNaN(x) == x.den = 0

\* x > y on scores; false when either is NaN
Greater(x, y) ==
    /\ ~IsNaN(x) /\ ~IsNaN(y)
    /\ IF x.num >= 0
       THEN y.num < 0 \/ x.num * x.num * y.den > y.num * y.num * x.den
       ELSE y.num < 0 /\ x.num * x.num * y.den < y.num * y.num * x.den

\* one step of the stable sort with (a, b) => b.score - a.score: x moves
\* left past the elements whose score is smaller
InsertDesc(sorted, x) ==
    LET keep == {i \in 1..Len(sorted) : ~Greater(x.score, sorted[i].score)}
        pos == IF keep = {} THEN 0
               ELSE CHOOSE i \in keep : \A j \in keep : j <= i
    IN  SubSeq(sorted, 1, pos) \o <<x>> \o SubSeq(sorted, pos + 1, Len(sorted))

RECURSIVE SortDesc(_)
SortDesc(results) ==
    IF results = <<>> THEN <<>>
    ELSE InsertDesc(SortDesc(SubSeq(results, 1, Len(results) - 1)),
                    results[Len(results)])

\* math.dot throws unless both vectors have the same, positive, length
DimsOk(idx, queryVector) ==
    /\ Len(queryVector) > 0
    /\ \A i \in 1..Len(idx) : Len(idx[i].vector) = Len(queryVector)

\* FAISS.search(queryVector, k)
FAISS_search(idx, queryVector, k) ==
    IF Len(idx) = 0 THEN <<>>
    ELSE Slice(SortDesc([i \in 1..Len(idx) |->
                   [docId |-> idx[i].docId,
                    score |-> CosineSimilarity(idx[i].vector, queryVector)]]), k)

\* characters of a text of the model: "Q" stands for a query of LongLen
\* characters, every other text but "" has one character
TextLen(text) == IF text = "" THEN 0 ELSE IF text = "Q" THEN LongLen ELSE 1

RECURSIVE SelectSeq2(_, _)
SelectSeq2(s, keep) ==
    IF s = <<>> THEN <<>>
    ELSE (IF Head(s) \in keep THEN <<Head(s)>> ELSE <<>>) \o SelectSeq2(Tail(s), keep)

\* SELECT id, content FROM documents WHERE id IN (documentIds)
SelectByIds(st, matches) ==
    LET ids == {matches[i].docId : i \in 1..Len(matches)}
        hit == SelectSeq2([i \in 1..Len(st) |-> i], {i \in 1..Len(st) : st[i].id \in ids})
    IN  [j \in 1..Len(hit) |-> [id |-> st[hit[j]].id, content |-> st[hit[j]].content]]

\* (mutant) the lines are numbered before the matches without content are
\* filtered out
Context_RankBeforeFilter(matches, rows) ==
    LET found(d) == {j \in 1..Len(rows) : rows[j].id = d}
        content(d) == IF found(d) = {} THEN ""
                      ELSE rows[CHOOSE j \in found(d) : \A h \in found(d) : j <= h].content
        all == [i \in 1..Len(matches) |-> content(matches[i].docId)]
        kept == SelectSeq2([i \in 1..Len(all) |-> i],
                           {i \in 1..Len(all) : ~Falsy(all[i])})
    IN  [j \in 1..Len(kept) |-> [rank |-> kept[j], content |-> all[kept[j]]]]

\* topResults.filter(result => result.content).map(...).join('\n'): one line
\* `${rank}. ${content}` for every match with content, in the order of the
\* matches; the joined text is kept as the sequence of its lines
Context(matches, rows) ==
    LET found(d) == {j \in 1..Len(rows) : rows[j].id = d}
        content(d) == IF found(d) = {} THEN ""
                      ELSE rows[CHOOSE j \in found(d) : \A h \in found(d) : j <= h].content
        all == [i \in 1..Len(matches) |-> content(matches[i].docId)]
        kept == SelectSeq2([i \in 1..Len(all) |-> i],
                           {i \in 1..Len(all) : ~Falsy(all[i])})
    IN  [j \in 1..Len(kept) |-> [rank |-> j, content |-> all[kept[j]]]]

RECURSIVE LinesLen(_, _)
LinesLen(context, i) ==
    IF i > Len(context) THEN 0
    ELSE (IF context[i].rank < 10 THEN 1 ELSE 2) + 2 + TextLen(context[i].content)
         + (IF i < Len(context) THEN 1 ELSE 0) + LinesLen(context, i + 1)

\* prompt.length in getAnswer
PromptLen(context, question) == TemplateLen + LinesLen(context, 1) + TextLen(question)

\* the database file as earlier runs of serverArray.js left it
InitialStoresArray ==
    { <<>>,
      << [id |-> 1, content |-> "a",
          vector |-> EncodeF32(<<0, 5, 0, 0, 0, 0, 0, 0>>)] >>,
      << [id |-> 1, content |-> " ",
          vector |-> EncodeF32(<<1, 0, 0, 0, 0, 0, 0, 0>>)],
         [id |-> 2, content |-> "a",
          vector |-> EncodeF32(<<0, 5, 0, 0, 0, 0, 0, 0>>)] >> }

InitArray ==
    /\ store \in InitialStoresArray
    /\ index = <<>>
    /\ sync = [pc |-> "start", err |-> FALSE, rows |-> <<>>, count |-> 0, calls |-> 1]
    /\ req = [r \in Requests |-> NoReq]

(************************ synchronizeFAISS (serverArray.js) *****************)
\* SQLite runs SELECT COUNT(*) as count FROM documents
ArrSyncCountExec ==
    /\ sync.pc = "start"
    /\ \/ sync' = [sync EXCEPT !.pc = "counted", !.count = Len(store)]
       \/ sync' = [sync EXCEPT !.pc = "counted", !.err = TRUE]
    /\ UNCHANGED <<store, index, req>>

\* the db.get callback: return on an error or on no documents, else db.all
ArrSyncCountCallback ==
    /\ sync.pc = "counted"
    /\ sync' = [sync EXCEPT !.pc = IF sync.err \/ sync.count = 0
                                   THEN "done" ELSE "all",
                            !.count = 0]
    /\ UNCHANGED <<store, index, req>>

\* SQLite runs SELECT id, vector FROM documents
ArrSyncAllExec ==
    /\ sync.pc = "all"
    /\ \/ sync' = [sync EXCEPT !.pc = "read", !.rows = store]
       \/ sync' = [sync EXCEPT !.pc = "read", !.err = TRUE]
    /\ UNCHANGED <<store, index, req>>

\* a synchronizeFAISS that adds the first row only
ArrAddRows_FirstRowOnly(idx, rows) ==
    IF rows = <<>> THEN idx
    ELSE FAISS_addArray(idx, Slice(DecodeF32(Head(rows).vector), ALENGTH),
                        Head(rows).id)

\* rows.forEach(row => FAISS.add(Array.from(vector.slice(0, ALENGTH)), row.id))
RECURSIVE ArrAddRows(_, _)
ArrAddRows(idx, rows) ==
    IF rows = <<>> THEN idx
    ELSE ArrAddRows(FAISS_addArray(idx, Slice(DecodeF32(Head(rows).vector), ALENGTH),
                                   Head(rows).id),
                    Tail(rows))

\* the db.all callback
ArrSyncAllCallback ==
    /\ sync.pc = "read"
    /\ index' = IF sync.err THEN index ELSE ArrAddRows(index, sync.rows)
    /\ sync' = [sync EXCEPT !.pc = "done", !.rows = <<>>]
    /\ UNCHANGED <<store, req>>

(************************* POST /add (serverArray.js) ***********************)
\* function (err) { ... } of db.run
ArrAddCallback(r) ==
    /\ req[r].op = "add" /\ req[r].pc = "callback"
    /\ IF req[r].err # ""
       THEN /\ req' = [req EXCEPT ![r] = Respond(r, 500, "Error adding document.", 0)]
            /\ index' = index
       ELSE IF req[r].changes > 0
       THEN /\ index' = FAISS_addArray(index, req[r].vector, req[r].lastID)
            /\ req' = [req EXCEPT ![r] =
                         Respond(r, 200, "Document added.", req[r].lastID)]
       ELSE /\ index' = index
            /\ req' = [req EXCEPT ![r] =
                         Respond(r, 200, "Document already exists.", 0)]
    /\ UNCHANGED <<store, sync>>

(************************ POST /search (serverArray.js) *********************)
Queries == {"", "q", "Q"}
Ks == {1, 2}

ArrSearchReceive(r, query, k) ==
    /\ Arrives(r)
    /\ req' = [req EXCEPT ![r] =
                 IF Falsy(query)
                 THEN [NoReq EXCEPT !.op = "search", !.pc = "done", !.query = query,
                                    !.status = 400, !.message = "Query is required"]
                 ELSE [NoReq EXCEPT !.op = "search", !.pc = "embedding",
                                    !.query = query, !.k = k]]
    /\ UNCHANGED <<store, index, sync>>

\* (mutant) FAISS.search sorts FAISS.index itself instead of a mapped copy
ArrSearchEmbedded_SortsIndex(r, vector) ==
    /\ req[r].op = "search" /\ req[r].pc = "embedding"
    /\ LET qVec == Slice(vector, ALENGTH)
           ok == DimsOk(index, qVec) \/ Len(index) = 0
           sorted == SortDesc([i \in 1..Len(index) |->
                        [vector |-> index[i].vector, docId |-> index[i].docId,
                         score |-> CosineSimilarity(index[i].vector, qVec)]])
       IN  /\ req' = [req EXCEPT ![r] =
                        IF ok
                        THEN [req[r] EXCEPT !.pc = "hydrating",
                                            !.matches = FAISS_search(index, qVec, req[r].k)]
                        ELSE [Respond(r, 500, "Error processing query.", 0)
                                 EXCEPT !.details = "Dimension mismatch"]]
           /\ index' = IF ok
                       THEN [i \in 1..Len(index) |->
                               [vector |-> sorted[i].vector, docId |-> sorted[i].docId]]
                       ELSE index
    /\ UNCHANGED <<store, sync>>

\* getEmbeddings resolves: FAISS.search reads the index, db.all is issued
ArrSearchEmbedded(r, vector) ==
    /\ req[r].op = "search" /\ req[r].pc = "embedding"
    /\ LET qVec == Slice(vector, ALENGTH)
       IN  req' = [req EXCEPT ![r] =
                     IF DimsOk(index, qVec) \/ Len(index) = 0
                     THEN [req[r] EXCEPT !.pc = "hydrating",
                                         !.matches = FAISS_search(index, qVec, req[r].k)]
                     ELSE [Respond(r, 500, "Error processing query.", 0)
                              EXCEPT !.details = "Dimension mismatch"]]
    /\ UNCHANGED <<store, index, sync>>

\* getEmbeddings throws
ArrSearchEmbedFailed(r) ==
    /\ req[r].op = "search" /\ req[r].pc = "embedding"
    /\ req' = [req EXCEPT ![r] = [Respond(r, 500, "Error processing query.", 0)
                                    EXCEPT !.details = "provider error"]]
    /\ UNCHANGED <<store, index, sync>>

\* SQLite runs SELECT id, content FROM documents WHERE id IN (...), or fails
ArrSearchRowsExec(r) ==
    /\ req[r].op = "search" /\ req[r].pc = "hydrating"
    /\ sync.pc # "start"
    /\ \/ req' = [req EXCEPT ![r].pc = "hydrated",
                             ![r].rows = SelectByIds(store, req[r].matches)]
       \/ req' = [req EXCEPT ![r].pc = "hydrated", ![r].err = "SQLITE_IOERR"]
    /\ UNCHANGED <<store, index, sync>>

\* (mutant) getAnswer calls the provider without the test of prompt.length
ArrSearchRowsCallback_NoLengthCheck(r) ==
    /\ req[r].op = "search" /\ req[r].pc = "hydrated"
    /\ LET context == Context(req[r].matches, req[r].rows)
       IN  req' = [req EXCEPT ![r] =
                     IF req[r].err # ""
                     THEN [Respond(r, 500, "Error processing query.", 0)
                              EXCEPT !.details = req[r].err]
                     ELSE [req[r] EXCEPT !.pc = "answering", !.rows = <<>>,
                                         !.context = context]]
    /\ UNCHANGED <<store, index, sync>>

\* the db.all callback and the continuation of the await: the context is
\* built and getAnswer is called, which throws on a prompt that is too long
ArrSearchRowsCallback(r) ==
    /\ req[r].op = "search" /\ req[r].pc = "hydrated"
    /\ LET context == Context(req[r].matches, req[r].rows)
       IN  req' = [req EXCEPT ![r] =
                     IF req[r].err # ""
                     THEN [Respond(r, 500, "Error processing query.", 0)
                              EXCEPT !.details = req[r].err]
                     ELSE IF PromptLen(context, req[r].query) > MaxPrompt
                     THEN [Respond(r, 500, "Error processing query.", 0)
                              EXCEPT !.details = "Prompt is too long"]
                     ELSE [req[r] EXCEPT !.pc = "answering", !.rows = <<>>,
                                         !.context = context]]
    /\ UNCHANGED <<store, index, sync>>

\* openai.chat.completions.create resolves: res.json({query, answer})
ArrSearchAnswered(r) ==
    /\ req[r].op = "search" /\ req[r].pc = "answering"
    /\ req' = [req EXCEPT ![r] = [Respond(r, 200, "", 0)
                                    EXCEPT !.answer = "answer",
                                           !.keys = {"query", "answer"}]]
    /\ UNCHANGED <<store, index, sync>>

\* openai.chat.completions.create rejects: getAnswer rethrows
ArrSearchAnswerFailed(r) ==
    /\ req[r].op = "search" /\ req[r].pc = "answering"
    /\ req' = [req EXCEPT ![r] = [Respond(r, 500, "Error processing query.", 0)
                                    EXCEPT !.details = "provider error"]]
    /\ UNCHANGED <<store, index, sync>>

NextArray ==
    \/ ArrSyncCountExec
    \/ ArrSyncCountCallback
    \/ ArrSyncAllExec
    \/ ArrSyncAllCallback
    \/ \E r \in Requests, content \in Contents : AddReceive(r, content)
    \/ \E r \in Requests, vector \in Embeddings : AddEmbedded(r, vector)
    \/ \E r \in Requests : AddEmbedFailed(r)
    \/ \E r \in Requests : AddInsertExec(r)
    \/ \E r \in Requests : ArrAddCallback(r)
    \/ \E r \in Requests, query \in Queries, k \in Ks : ArrSearchReceive(r, query, k)
    \/ \E r \in Requests, vector \in Embeddings : ArrSearchEmbedded(r, vector)
    \/ \E r \in Requests : ArrSearchEmbedFailed(r)
    \/ \E r \in Requests : ArrSearchRowsExec(r)
    \/ \E r \in Requests : ArrSearchRowsCallback(r)
    \/ \E r \in Requests : ArrSearchAnswered(r)
    \/ \E r \in Requests : ArrSearchAnswerFailed(r)

SpecArray == InitArray /\ [][NextArray]_vars

(***************************************************************************)
(*                 src/unnamed/part_001 (chunking variant)                 *)
(***************************************************************************)
\* processTextFile(content, 1000) is imported from embed.js, which does not
\* define it: it is taken to resolve with the content cut into chunks
Chunkings(content) == {<<content>>, <<content, "b">>}

\* the db.all callback of synchronizeFAISS: FAISS.add keeps the whole vector
ChunkSyncAllCallback ==
    /\ sync.pc = "read"
    /\ index' = IF sync.err THEN index ELSE AddRows(index, sync.rows)
    /\ sync' = [sync EXCEPT !.pc = "done", !.rows = <<>>]
    /\ UNCHANGED <<store, req>>

ChunkAddReceive(r, content) ==
    /\ Arrives(r)
    /\ req' = [req EXCEPT ![r] =
                 IF Falsy(content)
                 THEN [Respond(r, 400, "Content is required", 0)
                          EXCEPT !.op = "add", !.content = content]
                 ELSE [NoReq EXCEPT !.op = "add", !.pc = "chunking",
                                    !.content = content]]
    /\ UNCHANGED <<store, index, sync>>

\* processTextFile resolves; addDocumentToDB(chunks[0]) calls getEmbeddings
ChunkAddChunked(r, chunks) ==
    /\ req[r].op = "add" /\ req[r].pc = "chunking"
    /\ req' = [req EXCEPT ![r].results = chunks, ![r].i = 1,
                          ![r].pc = "embedding"]
    /\ UNCHANGED <<store, index, sync>>

\* processTextFile or getEmbeddings throws; the catch answers 500
ChunkAddFailed(r) ==
    /\ req[r].op = "add" /\ req[r].pc \in {"chunking", "embedding"}
    /\ req' = [req EXCEPT ![r] =
                 [Respond(r, 500, "Error processing document.", 0)
                     EXCEPT !.results = <<>>, !.i = 0]]
    /\ UNCHANGED <<store, index, sync>>

\* addDocumentToDB: getEmbeddings resolves, db.run is issued
ChunkAddEmbedded(r, vector) ==
    /\ req[r].op = "add" /\ req[r].pc = "embedding"
    /\ req' = [req EXCEPT ![r].vector = vector, ![r].pc = "inserting"]
    /\ UNCHANGED <<store, index, sync>>

\* SQLite runs the INSERT OR IGNORE of the chunk, or fails
ChunkAddInsertExec(r) ==
    /\ req[r].op = "add" /\ req[r].pc = "inserting"
    /\ sync.pc # "start"
    /\ \/ LET res == InsertOrIgnore(store, req[r].results[req[r].i],
                                    EncodeF32(req[r].vector))
          IN  /\ store' = res.rows
              /\ req' = [req EXCEPT ![r].pc = "callback",
                                    ![r].err = res.err,
                                    ![r].changes = Len(res.rows) - Len(store),
                                    ![r].lastID = IF Len(res.rows) > Len(store)
                                                  THEN Len(res.rows) ELSE 0]
       \/ /\ store' = store
          /\ req' = [req EXCEPT ![r].pc = "callback", ![r].err = "SQLITE_IOERR"]
    /\ UNCHANGED <<index, sync>>

\* the db.run callback of addDocumentToDB, then the rest of the loop body of
\* /add: documentResult has no field changes, and this is undefined in the
\* arrow function of a module, so this.lastID throws into the catch
ChunkAddCallback(r) ==
    /\ req[r].op = "add" /\ req[r].pc = "callback"
    /\ index' = IF req[r].err = "" /\ req[r].changes > 0
                THEN FAISS_add(index, req[r].vector, req[r].lastID)
                ELSE index
    /\ req' = [req EXCEPT ![r] =
                 [Respond(r, 500, "Error processing document.", 0)
                     EXCEPT !.results = <<>>, !.i = 0]]
    /\ UNCHANGED <<store, sync>>

NextChunk ==
    \/ ArrSyncCountExec
    \/ ArrSyncCountCallback
    \/ ArrSyncAllExec
    \/ ChunkSyncAllCallback
    \/ \E r \in Requests, content \in Contents : ChunkAddReceive(r, content)
    \/ \E r \in Requests :
          \E chunks \in Chunkings(req[r].content) : ChunkAddChunked(r, chunks)
    \/ \E r \in Requests : ChunkAddFailed(r)
    \/ \E r \in Requests, vector \in Embeddings : ChunkAddEmbedded(r, vector)
    \/ \E r \in Requests : ChunkAddInsertExec(r)
    \/ \E r \in Requests : ChunkAddCallback(r)

SpecChunk == InitArray /\ [][NextChunk]_vars

(***************************************************************************)
(*                       FAISS.search, call by call                         *)
(***************************************************************************)
MaxIndex == 3

\* vectors of entries and queries; <<0, 0>> is what a row written with
\* Buffer.from(vector) (server.js:165) is read back as
SearchVectors == {<<0, 0>>, <<8, 0>>, <<8, 8>>}

\* a query vector may also have another length than the entries
QueryVectors == SearchVectors \cup {<<8>>}

\* k of req.body is passed on as it is
SearchKs == (0 - 1)..MaxIndex

\* the contents of the rows, by id
DocNames == [i \in 1..(MaxIndex + 1) |-> IF i = 1 THEN "a" ELSE IF i = 2 THEN "b"
                                         ELSE IF i = 3 THEN "c" ELSE "d"]

\* FAISS.index after synchronizeFAISS: one entry per row, in rowid order
SearchIndexes ==
    UNION {[1..n -> SearchVectors] : n \in 0..MaxIndex}

InitSearch ==
    /\ \E vs \in SearchIndexes :
          /\ index = [i \in 1..Len(vs) |-> [vector |-> vs[i], docId |-> i]]
          /\ store = [i \in 1..Len(vs) |->
                        [id |-> i, content |-> DocNames[i],
                         vector |-> EncodeF32(vs[i])]]
    /\ sync = [pc |-> "done", err |-> FALSE, rows |-> <<>>, count |-> 0, calls |-> 1]
    /\ req = [r \in Requests |-> NoReq]

\* (mutant) a search that raises an error when nothing is indexed
FaissSearchCall_EmptyIsError(r, queryVector, k) ==
    /\ Arrives(r)
    /\ req' = [req EXCEPT ![r] =
                 IF DimsOk(index, queryVector) /\ Len(index) # 0
                 THEN [NoReq EXCEPT !.op = "FAISS.search", !.pc = "returned",
                                    !.vector = queryVector, !.k = k,
                                    !.matches = FAISS_search(index, queryVector, k)]
                 ELSE [NoReq EXCEPT !.op = "FAISS.search", !.pc = "thrown",
                                    !.vector = queryVector, !.k = k]]
    /\ UNCHANGED <<store, index, sync>>

\* one call FAISS.search(queryVector, k): it returns its results, or math.dot
\* throws on an entry whose length is not that of the query
FaissSearchCall(r, queryVector, k) ==
    /\ Arrives(r)
    /\ req' = [req EXCEPT ![r] =
                 IF DimsOk(index, queryVector) \/ Len(index) = 0
                 THEN [NoReq EXCEPT !.op = "FAISS.search", !.pc = "returned",
                                    !.vector = queryVector, !.k = k,
                                    !.matches = FAISS_search(index, queryVector, k)]
                 ELSE [NoReq EXCEPT !.op = "FAISS.search", !.pc = "thrown",
                                    !.vector = queryVector, !.k = k]]
    /\ UNCHANGED <<store, index, sync>>

NextSearch ==
    \E r \in Requests, queryVector \in QueryVectors, k \in SearchKs :
        FaissSearchCall(r, queryVector, k)

SpecSearch == InitSearch /\ [][NextSearch]_vars

(***************************************************************************)
(*              the context of /search, built call by call                  *)
(***************************************************************************)
MaxMatches == 2

\* ids of matches and rows
ContextIds == {1, 2}

\* faissResults: up to MaxMatches matches, best first
MatchLists ==
    UNION {[1..n -> [docId : ContextIds, score : {[num |-> 1, den |-> 1]}]] :
              n \in 0..MaxMatches}

\* topDocuments: rows in rowid order; a row may be missing, and the content
\* of a row may be empty (GET /load-documents of server.js on an empty file)
RowLists ==
    LET row(d, c) == <<[id |-> d, content |-> c]>>
    IN  { <<>>, row(1, "a"), row(2, "b"),
          row(1, "a") \o row(2, "b"), row(1, "") \o row(2, "b") }

InitContext ==
    /\ store = <<>>
    /\ index = <<>>
    /\ sync = [pc |-> "done", err |-> FALSE, rows |-> <<>>, count |-> 0, calls |-> 1]
    /\ req = [r \in Requests |-> NoReq]

\* topResults and context of one /search call, from its faissResults and
\* its topDocuments
BuildContext(r, matches, rows) ==
    /\ Arrives(r)
    /\ req' = [req EXCEPT ![r] =
                 [NoReq EXCEPT !.op = "context", !.pc = "built",
                               !.matches = matches, !.rows = rows,
                               !.context = Context(matches, rows)]]
    /\ UNCHANGED <<store, index, sync>>

NextContext ==
    \E r \in Requests, matches \in MatchLists, rows \in RowLists :
        BuildContext(r, matches, rows)

SpecContext == InitContext /\ [][NextContext]_vars

(***************************************************************************)
(*                     POST /search (src/server.js)                        *)
(***************************************************************************)
\* const { query, k = 5 } = req.body
DefaultK == 5
ScanQueries == {"", Undefined, "q", "Q"}
ScanKs == {1, DefaultK}

\* characters of the template of getAnswer in embed.js, of the text
\* "Query: \nDocuments:\n" of the prompt of /search, and of "undefined"
ScanTemplateLen == 158
ScanHeaderLen == 19
UndefinedLen == 9

\* cosineSimilarity(vecA, vecB) of /search: the dot product runs over vecA,
\* so a vecB that is shorter gives NaN; a zero magnitude gives 0
ScanCosine(vecA, vecB) ==
    IF Dot(vecA, vecA) = 0 \/ Dot(vecB, vecB) = 0 THEN [num |-> 0, den |-> 1]
    ELSE IF Len(vecB) < Len(vecA) THEN [num |-> 0, den |-> 0]
    ELSE [num |-> Dot(vecA, vecB), den |-> Dot(vecA, vecA) * Dot(vecB, vecB)]

\* results of the rows.forEach, sorted, and cut to k
ScanTop(queryVector, rows, k) ==
    Slice(SortDesc([i \in 1..Len(rows) |->
             [docId |-> rows[i].id, content |-> rows[i].content,
              score |-> ScanCosine(queryVector, DecodeF32(rows[i].vector))]]), k)

\* topResults.map((r, i) => `${i + 1}. ${r.content}`).join('\n'), kept as
\* the sequence of its lines
ScanLines(topResults) ==
    [i \in 1..Len(topResults) |-> [rank |-> i, content |-> topResults[i].content]]

\* `Query: ${query}\nDocuments:\n${lines}`: the pieces of the text before
\* the numbered lines, and the lines
ScanPrompt(query, lines) ==
    [head |-> <<"Query: ", query, "Documents:">>, lines |-> lines]

\* prompt.length in getAnswer(prompt): the question is undefined
ScanPromptLen(query, lines) ==
    ScanTemplateLen + ScanHeaderLen + TextLen(query) + LinesLen(lines, 1)
        + UndefinedLen

\* (mutant) the handler without its test of the query
ScanReceive_NoValidation(r, query, k) ==
    /\ Arrives(r)
    /\ req' = [req EXCEPT ![r] =
                 [NoReq EXCEPT !.op = "search", !.pc = "embedding",
                               !.query = query, !.k = k]]
    /\ UNCHANGED <<store, index, sync>>

ScanReceive(r, query, k) ==
    /\ Arrives(r)
    /\ req' = [req EXCEPT ![r] =
                 IF Falsy(query)
                 THEN [NoReq EXCEPT !.op = "search", !.pc = "done", !.query = query,
                                    !.status = 400, !.message = "Query is required"]
                 ELSE [NoReq EXCEPT !.op = "search", !.pc = "embedding",
                                    !.query = query, !.k = k]]
    /\ UNCHANGED <<store, index, sync>>

\* getEmbeddings resolves: db.all is issued
ScanEmbedded(r, vector) ==
    /\ req[r].op = "search" /\ req[r].pc = "embedding"
    /\ req' = [req EXCEPT ![r].pc = "scanning", ![r].vector = vector]
    /\ UNCHANGED <<store, index, sync>>

\* getEmbeddings throws
ScanEmbedFailed(r) ==
    /\ req[r].op = "search" /\ req[r].pc = "embedding"
    /\ req' = [req EXCEPT ![r] = [Respond(r, 500, "Error processing query.", 0)
                                    EXCEPT !.details = "provider error"]]
    /\ UNCHANGED <<store, index, sync>>

\* SQLite runs SELECT id, content, vector FROM documents, or fails
ScanRowsExec(r) ==
    /\ req[r].op = "search" /\ req[r].pc = "scanning"
    /\ sync.pc # "start"
    /\ \/ req' = [req EXCEPT ![r].pc = "scanned", ![r].rows = store]
       \/ req' = [req EXCEPT ![r].pc = "scanned", ![r].err = "SQLITE_IOERR"]
    /\ UNCHANGED <<store, index, sync>>

\* the db.all callback: the rows are scored, sorted and cut, the prompt is
\* built and getAnswer(prompt) is called; on a prompt that is too long its
\* promise rejects and nothing handles the rejection, so no response is sent
ScanRowsCallback(r) ==
    /\ req[r].op = "search" /\ req[r].pc = "scanned"
    /\ \E topResults \in {ScanTop(req[r].vector, req[r].rows, req[r].k)} :
       \E lines \in {ScanLines(topResults)} :
           req' = [req EXCEPT ![r] =
                     IF req[r].err # ""
                     THEN Respond(r, 500, "Error fetching documents.", 0)
                     ELSE [req[r] EXCEPT
                             !.pc = IF ScanPromptLen(req[r].query, lines) > MaxPrompt
                                    THEN "rejected" ELSE "answering",
                             !.rows = <<>>, !.vector = <<>>,
                             !.results = topResults,
                             !.call = <<ScanPrompt(req[r].query, lines)>>]]
    /\ UNCHANGED <<store, index, sync>>

\* openai.chat.completions.create resolves:
\* res.json({prompt, results: topResults, answer})
ScanAnswered(r) ==
    /\ req[r].op = "search" /\ req[r].pc = "answering"
    /\ req' = [req EXCEPT ![r] = [Respond(r, 200, "", 0)
                                    EXCEPT !.answer = "answer", !.call = <<>>,
                                           !.keys = {"prompt", "results", "answer"}]]
    /\ UNCHANGED <<store, index, sync>>

\* openai.chat.completions.create rejects: getAnswer logs the error and
\* returns undefined, and the then callback sends res.json with an answer
\* that is undefined, which JSON leaves out
ScanAnswerFailed(r) ==
    /\ req[r].op = "search" /\ req[r].pc = "answering"
    /\ req' = [req EXCEPT ![r] = [Respond(r, 200, "", 0)
                                    EXCEPT !.call = <<>>,
                                           !.keys = {"prompt", "results"}]]
    /\ UNCHANGED <<store, index, sync>>

NextScan ==
    \/ SyncExec
    \/ SyncCallback
    \/ \E r \in Requests, query \in ScanQueries, k \in ScanKs : ScanReceive(r, query, k)
    \/ \E r \in Requests, vector \in Embeddings : ScanEmbedded(r, vector)
    \/ \E r \in Requests : ScanEmbedFailed(r)
    \/ \E r \in Requests : ScanRowsExec(r)
    \/ \E r \in Requests : ScanRowsCallback(r)
    \/ \E r \in Requests : ScanAnswered(r)
    \/ \E r \in Requests : ScanAnswerFailed(r)

SpecScan == Init /\ [][NextScan]_vars

\* the steps that need no new request: SQLite runs every statement that was
\* issued, the event loop runs every callback that is ready, and the
\* providers settle every call
ScanProgress ==
    \/ SyncExec
    \/ SyncCallback
    \/ \E r \in Requests, vector \in Embeddings : ScanEmbedded(r, vector)
    \/ \E r \in Requests : ScanEmbedFailed(r)
    \/ \E r \in Requests : ScanRowsExec(r)
    \/ \E r \in Requests : ScanRowsCallback(r)
    \/ \E r \in Requests : ScanAnswered(r)
    \/ \E r \in Requests : ScanAnswerFailed(r)

SpecScanFair == SpecScan /\ WF_vars(ScanProgress)

(***************************************************************************)
(*                  GET /count-documents (src/server.js)                   *)
(***************************************************************************)
\* the handler issues db.all(SELECT id, vector ...) and db.get(SELECT
\* COUNT(*) ...) in one turn; scan and tally are the positions of the two
\* statements: "issued", then "ok" or "err" once SQLite has run it, then
\* "called" once its callback has run
CountReceive(r) ==
    /\ Arrives(r)
    /\ req' = [req EXCEPT ![r] =
                 [NoReq EXCEPT !.op = "count", !.pc = "counting",
                               !.scan = "issued", !.tally = "issued"]]
    /\ UNCHANGED <<store, index, sync>>

\* SQLite runs SELECT id, vector FROM documents, or fails
CountScanExec(r) ==
    /\ req[r].op = "count" /\ req[r].scan = "issued"
    /\ sync.pc # "start"
    /\ \E outcome \in {"ok", "err"} : req' = [req EXCEPT ![r].scan = outcome]
    /\ UNCHANGED <<store, index, sync>>

\* SQLite runs SELECT COUNT(*) as count FROM documents, or fails
CountTallyExec(r) ==
    /\ req[r].op = "count" /\ req[r].tally = "issued"
    /\ req[r].scan # "issued"
    /\ \/ req' = [req EXCEPT ![r].tally = "ok", ![r].count = Len(store)]
       \/ req' = [req EXCEPT ![r].tally = "err"]
    /\ UNCHANGED <<store, index, sync>>

\* res.status(s).json(..) or res.json(..) in a callback of the handler: the
\* first call sends the response; a later call throws, the headers being
\* sent already, and nothing catches it
CountSend(q, s, m) ==
    IF q.sent = 0
    THEN [q EXCEPT !.pc = "done", !.status = s, !.message = m, !.sent = 1]
    ELSE [q EXCEPT !.pc = "thrown", !.sent = q.sent + 1]

\* the db.all callback: 500 on err, otherwise the vectors are only logged
CountScanCallback(r) ==
    /\ req[r].op = "count" /\ req[r].scan \in {"ok", "err"}
    /\ req[r].pc # "thrown"
    /\ req' = [req EXCEPT ![r] =
                 IF req[r].scan = "err"
                 THEN CountSend([req[r] EXCEPT !.scan = "called"], 500,
                                "Error retrieving documents.")
                 ELSE [req[r] EXCEPT !.scan = "called"]]
    /\ UNCHANGED <<store, index, sync>>

\* the db.get callback: 500 on err, otherwise res.json({ count: row.count })
CountTallyCallback(r) ==
    /\ req[r].op = "count" /\ req[r].tally \in {"ok", "err"}
    /\ req[r].pc # "thrown"
    /\ req' = [req EXCEPT ![r] =
                 IF req[r].tally = "err"
                 THEN CountSend([req[r] EXCEPT !.tally = "called", !.count = 0], 500,
                                "Error retrieving count.")
                 ELSE CountSend([req[r] EXCEPT !.tally = "called"], 200, "")]
    /\ UNCHANGED <<store, index, sync>>

\* the exception thrown in the callback is uncaught: the process ends and
\* is started again
CountUncaught ==
    /\ \E r \in Requests : req[r].pc = "thrown"
    /\ Restart

NextCount ==
    \/ SyncExec
    \/ SyncCallback
    \/ \E r \in Requests : CountReceive(r)
    \/ \E r \in Requests : CountScanExec(r)
    \/ \E r \in Requests : CountTallyExec(r)
    \/ \E r \in Requests : CountScanCallback(r)
    \/ \E r \in Requests : CountTallyCallback(r)
    \/ CountUncaught

SpecCount == Init /\ [][NextCount]_vars

(***************************************************************************)
(*      the two rankings of src/server.js, call by call on one query       *)
(***************************************************************************)
\* cosineSimilarity(vecA, vecB) of FAISS.search in server.js: the dot product
\* runs over vecA, and nothing guards a zero magnitude (0 / 0 is NaN)
FaissCosine(vecA, vecB) ==
    IF Len(vecB) < Len(vecA) THEN [num |-> 0, den |-> 0]
    ELSE [num |-> Dot(vecA, vecB), den |-> Dot(vecA, vecA) * Dot(vecB, vecB)]

\* FAISS.search(queryVector, k) of server.js
FAISS_searchScan(idx, queryVector, k) ==
    IF Len(idx) = 0 THEN <<>>
    ELSE Slice(SortDesc([i \in 1..Len(idx) |->
                   [docId |-> idx[i].docId,
                    score |-> FaissCosine(queryVector, idx[i].vector)]]), k)

\* one query vector and k are ranked both ways: by FAISS.search over the
\* index (matches) and by the scan of the rows that /search does (results)
RankCall(r, queryVector, k) ==
    /\ Arrives(r)
    /\ req' = [req EXCEPT ![r] =
                 [NoReq EXCEPT !.op = "rank", !.pc = "returned",
                               !.vector = queryVector, !.k = k,
                               !.matches = FAISS_searchScan(index, queryVector, k),
                               !.results = ScanTop(queryVector, store, k)]]
    /\ UNCHANGED <<store, index, sync>>

NextRank ==
    \E r \in Requests, queryVector \in QueryVectors, k \in SearchKs :
        RankCall(r, queryVector, k)

SpecRank == InitSearch /\ [][NextRank]_vars

(***************************************************************************)
(*                              properties                                 *)
(***************************************************************************)
RowsWith(content) == {i \in 1..Len(store) : store[i].content = content}
EntriesFor(d) == {i \in 1..Len(index) : index[i].docId = d}
RowIds == {store[i].id : i \in 1..Len(store)}

Answered(r) == req[r].pc = "done"
Added(r) ==
    /\ req[r].op = "add" /\ Answered(r)
    /\ req[r].status = 200 /\ req[r].message = "Document added."
Existing(r) ==
    /\ req[r].op = "add" /\ Answered(r)
    /\ req[r].status = 200 /\ req[r].message = "Document already exists."

\* C1: ingesting a content that an answered call of this process has created
\* leaves one Document with that content and one index entry for it, and is
\* answered 200 'Document already exists.', never with a constraint error;
\* a reload of the folder reports none of the documents an earlier load
\* created.  No two Documents share a content, no two entries a docId.
C1_IngestTwiceOneDocument ==
    /\ \A i, j \in 1..Len(store) : store[i].content = store[j].content => i = j
    /\ \A i, j \in 1..Len(index) : index[i].docId = index[j].docId => i = j
    /\ \A r \in Requests : req[r].err # "SQLITE_CONSTRAINT"
    /\ \A r1, r2 \in Requests :
          (/\ r1 # r2 /\ Added(r1)
           /\ req[r2].op = "add" /\ Answered(r2) /\ req[r2].status = 200
           /\ req[r2].content = req[r1].content)
          => /\ Existing(r2)
             /\ Cardinality(RowsWith(req[r1].content)) = 1
             /\ Cardinality(EntriesFor(req[r1].docId)) = 1
    /\ \A r1, r2 \in Requests :
          (/\ r1 # r2
           /\ req[r1].op = "load" /\ Answered(r1) /\ req[r1].status = 200
           /\ req[r2].op = "load" /\ Answered(r2) /\ req[r2].status = 200)
          => /\ \A k1 \in 1..Len(req[r1].results), k2 \in 1..Len(req[r2].results) :
                    req[r1].results[k1] # req[r2].results[k2]
             /\ \A k \in 1..Len(Folder) : Cardinality(RowsWith(Folder[k])) = 1
             /\ \A k \in 1..Len(req[r1].results) :
                    Cardinality(EntriesFor(req[r1].results[k])) = 1

\* C1 witness: the first call created the document, the second, with the
\* same content, was answered 'Document already exists.'
C1_Witness ==
    /\ Added(1) /\ Existing(2) /\ req[1].content = req[2].content
    /\ Cardinality(EntriesFor(req[1].docId)) = 1

\* C2: when all the /add calls carrying one content are answered and one of
\* them succeeded, exactly one of them reports 'Document added.', the other
\* successful ones report 'Document already exists.', the store holds one
\* Document with the content and the index one entry for it (database
\* empty at the start, so the content is new).
C2_ConcurrentIngestOneCreated ==
    \A c \in Contents :
        LET R == {r \in Requests : req[r].op = "add" /\ req[r].content = c}
            W == {r \in R : Added(r)}
        IN  (/\ R # {}
             /\ \A r \in R : Answered(r)
             /\ \E r \in R : req[r].status = 200)
            => /\ Cardinality(W) = 1
               /\ \A r \in R : req[r].status = 200 => (Added(r) \/ Existing(r))
               /\ Cardinality(RowsWith(c)) = 1
               /\ \A r \in W : /\ req[r].docId \in {store[i].id : i \in RowsWith(c)}
                                /\ Cardinality(EntriesFor(req[r].docId)) = 1

\* C2 witness: the call that arrived first lost the insert to a concurrent
\* call with the same content
C2_Witness ==
    /\ Existing(1) /\ Added(2) /\ req[1].content = req[2].content

\* C3: every index entry has exactly one Document of the store with its id,
\* and that Document's stored vector reads back as the entry's vector
C3_IndexEntryMatchesStore ==
    \A e \in 1..Len(index) :
        /\ Cardinality({i \in 1..Len(store) : store[i].id = index[e].docId}) = 1
        /\ \A i \in 1..Len(store) :
              store[i].id = index[e].docId
              => DecodeF32(store[i].vector) = index[e].vector

\* C4: the startup synchronization has finished before a search request is
\* served against the index: whenever a search reads the index (FAISS.search,
\* at the step from "embedding" to "hydrating"), the synchronizeFAISS call of
\* the process is done.
C4_SearchOnlyAfterSync ==
    [][\A r \in Requests :
          (req[r].op = "search" /\ req[r].pc = "embedding"
              /\ req'[r].pc = "hydrating")
          => sync.pc = "done"]_vars

\* C5: synchronizeFAISS is a full replace: with no request made, whenever a
\* call of it has finished without an error, be it the first or a later one,
\* the index is what one synchronization of an empty index gives.
C5_ResyncIsFullReplace ==
    (/\ sync.pc = "done" /\ ~sync.err
     /\ \A r \in Requests : req[r].op = "none")
    => index = AddRows(<<>>, store)

NoIngestion == \A r \in Requests : req[r].op # "add"

\* C6: when synchronizeFAISS finishes without a storage error and no /add
\* request has been made, the ids of the index are the ids of the store, each
\* held once; on a count of 0 it finishes without an error and leaves the
\* index empty.
C6_ResyncIdsMatchStore ==
    [][/\ (sync.pc # "done" /\ sync'.pc = "done" /\ ~sync'.err /\ NoIngestion)
          => /\ {index'[i].docId : i \in 1..Len(index')} = RowIds
             /\ \A d \in RowIds :
                   Cardinality({i \in 1..Len(index') : index'[i].docId = d}) = 1
             /\ Len(index') = Len(store)
       /\ (/\ sync.pc = "counted" /\ ~sync.err /\ sync.count = 0
           /\ sync'.pc # "counted" /\ NoIngestion)
          => sync'.pc = "done" /\ ~sync'.err /\ index' = <<>>]_vars

\* C6 witness: a synchronization of a store of two documents has finished
C6_Witness ==
    /\ sync.pc = "done" /\ ~sync.err /\ NoIngestion
    /\ Len(store) = 2 /\ Len(index) = 2
    /\ index[1].docId = 1 /\ index[2].docId = 2

\* C7: a /add call whose getEmbeddings fails is answered 500, and no step of
\* the call up to that answer changes the store or the index
C7_EmbedFailureWritesNothing ==
    [][\A r \in Requests :
          /\ (req'[r].op = "add" /\ req'[r].pc = "embedding" /\ req'[r] # req[r])
             => (store' = store /\ index' = index)
          /\ (req[r].op = "add" /\ req[r].pc = "embedding" /\ req'[r].pc = "done")
             => (req'[r].status = 500 /\ store' = store /\ index' = index)]_vars

\* C7 witness: a call answered 'Error processing document.' while the store
\* and the index hold nothing
C7_Witness ==
    \E r \in Requests :
        /\ req[r].op = "add" /\ Answered(r) /\ req[r].status = 500
        /\ req[r].message = "Error processing document."
        /\ store = <<>> /\ index = <<>>

\* a content that is empty or whitespace only
Blank(content) == content \in {"", " "}

\* C8: a /add call with empty or blank content is answered 400 at once,
\* before getEmbeddings is called
C8_BlankContentRejected ==
    \A r \in Requests :
        (req[r].op = "add" /\ Blank(req[r].content))
        => (Answered(r) /\ req[r].status = 400)

\* C9: a call whose INSERT failed with a storage error is answered 500 and
\* its callback leaves the index as it was
C9_InsertFailureKeepsIndex ==
    [][\A r \in Requests :
          (req[r].pc = "callback" /\ req[r].err # "" /\ req'[r].pc = "done")
          => (req'[r].status = 500 /\ index' = index)]_vars

\* C9 witness: a /add call answered 'Error adding document.'
C9_Witness ==
    \E r \in Requests :
        /\ req[r].op = "add" /\ Answered(r) /\ req[r].status = 500
        /\ req[r].message = "Error adding document."

\* C10: a call answered 'Document added.' with docId d finds, from the
\* moment of the answer on, a Document d with the submitted content in the
\* store and an entry for d in the index; the same for every docId in the
\* results of an answered /load-documents
C10_ReportedAddedIsStoredAndIndexed ==
    /\ \A r \in Requests :
          Added(r)
          => /\ \E i \in 1..Len(store) :
                   store[i].id = req[r].docId /\ store[i].content = req[r].content
             /\ EntriesFor(req[r].docId) # {}
    /\ \A r \in Requests :
          (req[r].op = "load" /\ Answered(r) /\ req[r].status = 200)
          => \A k \in 1..Len(req[r].results) :
                 /\ req[r].results[k] \in RowIds
                 /\ EntriesFor(req[r].results[k]) # {}

\* C10 witness: a call reported the second Document of the store as added
C10_Witness ==
    \E r \in Requests : Added(r) /\ req[r].docId = 2 /\ EntriesFor(2) # {}

\* C11: an ingest whose embedding, store insert and index add all succeeded
\* is never answered with an error: the step of a /add call that follows a
\* successful insert and adds the entry to the index answers with status 200.
C11_SuccessfulIngestNotAnError ==
    [][\A r \in Requests :
          (/\ req[r].op = "add" /\ req[r].pc = "callback"
           /\ req[r].err = "" /\ req[r].changes > 0
           /\ req'[r].pc = "done" /\ Len(index') = Len(index) + 1)
          => req'[r].status = 200]_vars

\* the matches a search request got from FAISS.search
Searched(r) == req[r].op = "search" /\ req[r].pc \in {"hydrating", "hydrated"}

ScoreEq(x, y) == ~IsNaN(x) /\ ~IsNaN(y) /\ ~Greater(x, y) /\ ~Greater(y, x)

\* C12: the results of FAISS.search are in descending order of score, and
\* of two results with the same score the one with the lower id comes first.
C12_DescendingTiesByAscendingId ==
    \A r \in Requests :
        Searched(r) =>
            \A i, j \in 1..Len(req[r].matches) :
                (i < j /\ ~IsNaN(req[r].matches[i].score)
                       /\ ~IsNaN(req[r].matches[j].score))
                => /\ ~Greater(req[r].matches[j].score, req[r].matches[i].score)
                   /\ ScoreEq(req[r].matches[i].score, req[r].matches[j].score)
                      => req[r].matches[i].docId <= req[r].matches[j].docId

\* a call of FAISS.search that returned
Returned(r) == req[r].op = "FAISS.search" /\ req[r].pc = "returned"

\* the score FAISS.search gives entry i of the index for the query of call r
ScoreOf(r, i) == CosineSimilarity(index[i].vector, req[r].vector)

\* C13: FAISS.search is exact top-k: for k >= 1 it returns min(k, index size)
\* entries, no entry left out has a greater score than an entry returned, and
\* for k >= index size every entry is returned.
C13_ExactTopK ==
    \A r \in Requests :
        (Returned(r) /\ req[r].k >= 1) =>
            LET got == {req[r].matches[i].docId : i \in 1..Len(req[r].matches)}
            IN  /\ Len(req[r].matches) = Min(req[r].k, Len(index))
                /\ \A i \in 1..Len(req[r].matches), j \in 1..Len(index) :
                      index[j].docId \notin got
                      => ~Greater(ScoreOf(r, j), req[r].matches[i].score)
                /\ req[r].k >= Len(index)
                   => got = {index[j].docId : j \in 1..Len(index)}

\* C14: for k <= 0 FAISS.search returns an empty sequence.
C14_NonPositiveKReturnsNothing ==
    \A r \in Requests :
        (Returned(r) /\ req[r].k <= 0) => req[r].matches = <<>>

\* C15: FAISS.search gives no entry the score NaN: an entry or a query of
\* zero magnitude has a defined similarity.
C15_ZeroMagnitudeScoresZero ==
    \A r \in Requests :
        Returned(r) =>
            \A i \in 1..Len(req[r].matches) : ~IsNaN(req[r].matches[i].score)

\* C16: on an empty index every call of FAISS.search, for any k and any
\* query vector, returns the empty sequence and does not throw.
C16_EmptyIndexReturnsNothing ==
    \A r \in Requests :
        (req[r].op = "FAISS.search" /\ Len(index) = 0)
        => Returned(r) /\ req[r].matches = <<>>

\* C16 witness: calls on the empty index with a negative k and with a query
\* of another length than any entry could have
C16_Witness ==
    /\ Len(index) = 0
    /\ \E r \in Requests : Returned(r) /\ req[r].k < 0
    /\ \E r \in Requests : Returned(r) /\ req[r].vector = <<8>> /\ req[r].k > 0

\* C17: the matches FAISS.search returns to a search request never hold the
\* same id twice, however often the id was added to the index.
C17_NoIdTwiceInResults ==
    \A r \in Requests :
        Searched(r) =>
            \A i, j \in 1..Len(req[r].matches) :
                req[r].matches[i].docId = req[r].matches[j].docId => i = j

\* the content the rows of call r hold for id d ("" when there is none)
ContentIn(r, d) ==
    IF \E j \in 1..Len(req[r].rows) : req[r].rows[j].id = d
    THEN req[r].rows[CHOOSE j \in 1..Len(req[r].rows) : req[r].rows[j].id = d].content
    ELSE ""

\* the matches of call r, by position, whose id has content
WithContent(r) ==
    {i \in 1..Len(req[r].matches) : ContentIn(r, req[r].matches[i].docId) # ""}

\* C18: the context holds one line per match that has content, in the order
\* of the matches, numbered 1, 2, ... without a gap, with the content of the
\* match; a match without content is skipped and the context is still built.
C18_ContextLinesFollowMatches ==
    \A r \in Requests :
        (req[r].op = "context" /\ req[r].pc = "built") =>
            /\ Len(req[r].context) = Cardinality(WithContent(r))
            /\ \A i \in WithContent(r) :
                  LET n == Cardinality({h \in WithContent(r) : h <= i})
                  IN  req[r].context[n] =
                        [rank |-> n,
                         content |-> ContentIn(r, req[r].matches[i].docId)]

\* C18 witness: the first of two matches has no row, the second one is line 1
C18_Witness ==
    \E r \in Requests :
        /\ req[r].op = "context" /\ req[r].pc = "built"
        /\ Len(req[r].matches) = 2 /\ WithContent(r) = {2}
        /\ req[r].context = <<[rank |-> 1, content |-> "b"]>>

\* C19: the Answer Generator provider is never called with a prompt over the
\* budget: a search request whose provider call is under way has a prompt of
\* at most MaxPrompt characters.
C19_NoProviderCallOverBudget ==
    \A r \in Requests :
        (req[r].op = "search" /\ req[r].pc = "answering")
        => PromptLen(req[r].context, req[r].query) <= MaxPrompt

\* C19 witness: one search was rejected for its prompt, while another one
\* has its provider call under way
C19_Witness ==
    /\ \E r \in Requests :
          /\ req[r].op = "search" /\ req[r].pc = "done"
          /\ req[r].details = "Prompt is too long"
    /\ \E r \in Requests : req[r].op = "search" /\ req[r].pc = "answering"

\* C20: a search rejected because its prompt is over the budget is answered
\* with status 400.
C20_OverBudgetIsClientError ==
    \A r \in Requests :
        (/\ req[r].op = "search" /\ req[r].pc = "done"
         /\ req[r].details = "Prompt is too long")
        => req[r].status = 400

SearchDone(r) == req[r].op = "search" /\ req[r].pc = "done"

\* C21: a /search call whose answer generation failed is answered with a
\* server error, never with a success: every /search response of status 200
\* carries the answer of the generator
C21_FailedAnswerIsServerError ==
    \A r \in Requests :
        (SearchDone(r) /\ req[r].status = 200) => "answer" \in req[r].keys

\* C22: a /search call whose query is empty or missing is answered 400
\* 'Query is required' at once: it never waits for getEmbeddings, never
\* issues the SELECT and never holds rows or results
C22_EmptyQueryRejectedFirst ==
    \A r \in Requests :
        (req[r].op = "search" /\ Falsy(req[r].query))
            => /\ req[r].pc = "done"
               /\ req[r].status = 400
               /\ req[r].message = "Query is required"
               /\ req[r].vector = <<>> /\ req[r].rows = <<>>
               /\ req[r].results = <<>> /\ req[r].call = <<>>

\* an empty query and a missing query have both been rejected, while the
\* synchronization has not read the store yet
C22_Witness ==
    /\ sync.pc = "start"
    /\ SearchDone(1) /\ req[1].query = "" /\ req[1].status = 400
    /\ SearchDone(2) /\ req[2].query = Undefined /\ req[2].status = 400

\* C23: the response of a successful /search is {query, answer, matches},
\* and its matches are the ranked list that FAISS.search returned, scores
\* included
C23_SuccessReturnsMatches ==
    [][\A r \in Requests :
          (/\ req[r].op = "search" /\ req[r].pc = "answering"
           /\ req'[r].pc = "done" /\ req'[r].status = 200)
              => /\ req'[r].keys = {"query", "answer", "matches"}
                 /\ req'[r].results = req[r].matches]_vars

\* C24: getAnswer is called with two arguments: the numbered lines of the
\* retrieved documents and nothing else as the context, and the query of the
\* caller as the question
C24_GeneratorGetsContextAndQuery ==
    \A r \in Requests :
        (req[r].op = "search" /\ req[r].pc = "answering")
            => /\ Len(req[r].call) = 2
               /\ req[r].call[1] = [head |-> <<>>, lines |-> ScanLines(req[r].results)]
               /\ req[r].call[2] = [head |-> <<req[r].query>>, lines |-> <<>>]

\* C25: Documents are write-once: every step leaves the rows of the store as
\* they are (same id, content and vector, none removed), and a row that a
\* step creates has an id greater than every id assigned before
C25_DocumentsWriteOnce ==
    [][/\ Len(store') >= Len(store)
       /\ SubSeq(store', 1, Len(store)) = store
       /\ \A i \in (Len(store) + 1)..Len(store') :
             \A j \in 1..Len(store) : store'[i].id > store[j].id]_vars

\* a Document was created next to the one of an earlier run, and an ingest
\* of the earlier content was answered without a write
C25_Witness ==
    /\ Len(store) = 2 /\ store[1].id = 1 /\ store[2].id = 2
    /\ \E r \in Requests : Added(r) /\ req[r].docId = 2
    /\ \E r \in Requests : Existing(r) /\ req[r].content = store[1].content

\* the index that a restart of the process and its synchronizeFAISS build
\* from the store as it is
ResyncedIndex == AddRows(<<>>, store)

\* C26: a vector written at ingest and read back by the synchronization is
\* the same vector: for every id of the index, the entry that a restart and
\* resync with no write in between give that id holds the vector that the
\* index holds for it now
C26_VectorSurvivesRestart ==
    \A e \in 1..Len(index) :
        \A i \in 1..Len(ResyncedIndex) :
            ResyncedIndex[i].docId = index[e].docId
                => ResyncedIndex[i].vector = index[e].vector

\* C27: FAISS.add rejects a vector whose length differs from the length of
\* the first entry and leaves the index as it was, so all vectors of the
\* index have the same length
C27_IndexVectorsSameLength ==
    \A e, f \in 1..Len(index) : Len(index[e].vector) = Len(index[f].vector)

\* C28: within an ingest call the store write comes before the index add: a
\* step of an ingest that changes the index is the db.run callback of a
\* request whose insert succeeded and created a row; it appends one entry,
\* for the id of that row, which is in the store with the content of the
\* request, and no other request holds that id as the row it created
C28_StoreWriteBeforeIndexAdd ==
    [][(index' # index /\ sync' = sync)
          => \E r \in Requests :
                /\ req[r].op \in {"add", "load"} /\ req[r].pc = "callback"
                /\ req[r].err = "" /\ req[r].changes > 0
                /\ index' = Append(index, [vector |-> req[r].vector,
                                           docId |-> req[r].lastID])
                /\ \E i \in 1..Len(store) :
                      /\ store[i].id = req[r].lastID
                      /\ store[i].content = req[r].content
                /\ \A q \in Requests \ {r} : req[q].lastID # req[r].lastID]_vars

\* two ingest calls have each created a row and added its entry
C28_Witness ==
    /\ Added(1) /\ Added(2) /\ req[1].docId # req[2].docId
    /\ \A r \in Requests :
          /\ EntriesFor(req[r].docId) # {}
          /\ \E i \in 1..Len(store) :
                store[i].id = req[r].docId /\ store[i].content = req[r].content

\* C29: a /add call whose insert reports no created row (changes = 0, the
\* content is already present) does not touch the index: every step of an
\* ingest call other than the callback of an insert that created a row (or
\* failed) leaves the index as it is
C29_ExistingContentKeepsIndex ==
    [][\A r \in Requests :
          (/\ req[r].op = "add" /\ req'[r] # req[r]
           /\ req[r].pc = "callback" => (req[r].err = "" /\ req[r].changes = 0))
              => index' = index]_vars

\* the content of a Document of an earlier run was ingested again: the call
\* is answered and the index holds the one entry of the synchronization
C29_Witness ==
    /\ sync.pc = "done" /\ Len(store) = 1 /\ Len(index) = 1
    /\ index[1].docId = store[1].id
    /\ \E r \in Requests : Existing(r) /\ req[r].content = store[1].content

\* the callback of db.run that will add the entry of row d is still to run
PendingAdd(d) ==
    \E r \in Requests :
        /\ req[r].op = "add" /\ req[r].pc = "callback"
        /\ req[r].changes > 0 /\ req[r].lastID = d

\* C30: a Document whose ingest died between the store insert and the index
\* add is without an index entry until the synchronization of the next start
\* has run; once that synchronization has finished without a storage error,
\* every Document of the store has an index entry (or is the row of a call
\* of the new process whose callback is still to run)
C30_ResyncRepairsAfterCrash ==
    /\ (sync.pc # "done" /\ \A r \in Requests : req[r].op = "none")
          => index = <<>>
    /\ (sync.pc = "done" /\ ~sync.err)
          => \A i \in 1..Len(store) :
                EntriesFor(store[i].id) # {} \/ PendingAdd(store[i].id)

\* the process died after an insert, was started again, and its
\* synchronization has given the Document its index entry
C30_Witness ==
    /\ \A r \in Requests : req[r].op = "none"
    /\ Len(store) = 1
    /\ sync.pc = "done" /\ ~sync.err
    /\ Len(index) = 1 /\ index[1].docId = store[1].id

\* synchronizeFAISS has issued its read of the store and its callback has
\* not added the entries yet
Resyncing == sync.pc \in {"start", "read"}

\* C31: synchronizeFAISS has the index to itself: from the moment its read of
\* the store is issued until its callback has added the last entry, no
\* ingest call adds an entry to the index (and no search reads it)
C31_ResyncHasIndexToItself ==
    [][(Resyncing /\ sync' = sync) => index' = index]_vars

\* the stage of a /search call at a position of its handler: Validating is
\* the turn in which the call arrives, the SELECT of the handler stands for
\* Searching and Hydrating, and the prompt is built in the turn that enters
\* Answering
Stage(pc) ==
    CASE pc = "idle" -> 0
      [] pc = "embedding" -> 1
      [] pc \in {"hydrating", "scanning"} -> 2
      [] pc \in {"hydrated", "scanned"} -> 3
      [] pc = "answering" -> 4
      [] OTHER -> 9

\* C32: a /search call goes through its stages in their order, one at a
\* time and none twice; it ends Done (status 200, with the answer) only out
\* of Answering, and a failure at a stage ends it at once as Failed (an
\* error status): it is never answered with a success after a failed stage
\* and never left at a stage that is no stage of the pipeline
C32_StagesInOrderFailClosed ==
    [][\A r \in Requests :
          (req'[r].op = "search" /\ req'[r] # req[r])
              => \/ /\ req'[r].pc # "done"
                    /\ Stage(req'[r].pc) = Stage(req[r].pc) + 1
                    /\ Stage(req'[r].pc) <= 4
                 \/ /\ req'[r].pc = "done" /\ req'[r].status \in {400, 500}
                 \/ /\ req[r].pc = "answering"
                    /\ req'[r].pc = "done" /\ req'[r].status = 200
                    /\ "answer" \in req'[r].keys]_vars

\* C33: a /search call is read-only: every step of a /search call, whether
\* the call succeeds or fails, leaves the entries of the index, their order
\* and the store as they are
C33_SearchIsReadOnly ==
    [][\A r \in Requests :
          (req'[r].op = "search" /\ req'[r] # req[r])
              => (index' = index /\ store' = store)]_vars

\* of two /search calls on an index of two entries one has been answered
\* with an answer and one has failed; the index is as the synchronization
\* built it
C33_Witness ==
    /\ Len(store) = 2 /\ index = ArrAddRows(<<>>, store)
    /\ SearchDone(1) /\ req[1].status = 200
    /\ SearchDone(2) /\ req[2].status = 500

\* the index that a restart of serverArray.js and its synchronizeFAISS build
\* from the store as it is
ResyncedIndexArray == ArrAddRows(<<>>, store)

\* C34: in serverArray.js the same projection, the first ALENGTH elements of
\* the embedding, is applied on every path: every vector of the index has
\* at most ALENGTH elements, and the entry that an ingest created for a
\* Document equals the entry that the synchronization creates for it
C34_OneProjectionOnEveryPath ==
    /\ \A e \in 1..Len(index) : Len(index[e].vector) <= ALENGTH
    /\ \A e \in 1..Len(index) :
          \A i \in 1..Len(ResyncedIndexArray) :
              ResyncedIndexArray[i].docId = index[e].docId
                  => ResyncedIndexArray[i].vector = index[e].vector

\* C35: every /search call that passes validation is answered in the end,
\* also when getAnswer rejects the prompt as too long or its provider call
\* fails
C35_EverySearchAnswered ==
    \A r \in Requests :
        (req[r].op = "search" /\ req[r].pc = "embedding") ~> (req[r].pc = "done")

\* C36: /count-documents sends one response for a request, {count} or one
\* status 500: no callback of the handler sends a second one
C36_CountAnswersOnce ==
    \A r \in Requests : req[r].op = "count" => req[r].sent <= 1

\* C37: over an index in sync with the store, FAISS.search of server.js and
\* the ranking of the rows done by its /search handler give the same ranked
\* list of ids and scores for every query vector and k, also when a stored
\* vector or the query has zero magnitude
C37_ScanRankingEqualsFaissSearch ==
    \A r \in Requests :
        req[r].op = "rank"
            => /\ Len(req[r].matches) = Len(req[r].results)
               /\ \A i \in 1..Len(req[r].matches) :
                     /\ req[r].matches[i].docId = req[r].results[i].docId
                     /\ ScoreEq(req[r].matches[i].score, req[r].results[i].score)

=============================================================================
